---- MODULE Spec2Model ----
(***************************************************************************)
(* State-machine model of the CRM GraphQL service (crm/schema.py,          *)
(* crm/models.py, seed.py).                                                *)
(*                                                                         *)
(* The relational store is three tables kept as sequences in insertion     *)
(* order.  Under Spec and SpecShop every mutation and resolver is one      *)
(* action that runs the whole handler; `res` is the response in flight:    *)
(* what the handler returned or raised, with its input and the tables it   *)
(* started from, until Deliver hands it to the caller.  Spec holds the     *)
(* customer operations, SpecShop the product and order operations.         *)
(* SpecRace runs the handlers split at their database statements, so that  *)
(* requests served by different workers interleave.                        *)
(*                                                                         *)
(* Money (Decimal with two places) is an integer number of cents, so sums  *)
(* are exact as Decimal sums are.  A phone is a tuple of one-character     *)
(* strings so that the regular expression of CreateCustomer can be         *)
(* evaluated on it; an absent phone and the empty phone are both << >>.    *)
(***************************************************************************)
EXTENDS Integers, Sequences, FiniteSets, TLC

VARIABLES customers, products, orders, res, reqs, bulk, ordReq

vars == <<customers, products, orders, res, reqs, bulk, ordReq>>

(***************************************************************************)
(* Bounds of the model.                                                    *)
(***************************************************************************)
MaxBatch == 3
MaxProducts == 2
MaxOrders == 2
MaxIdList == 2
NReq == 2
MaxRaceBatch == 2

\* Field limits of crm/models.py and the repetition counts of the phone pattern.
NameMaxLen == 255
PhoneMaxLen == 32
PhoneMinDigits == 9
PhoneMaxDigits == 15
PriceMaxDigits == 12
StockMax == 2147483647

(***************************************************************************)
(* Sample inputs.                                                          *)
(***************************************************************************)
Digits == {"0", "1", "2", "3", "4", "5", "6", "7", "8", "9"}

NoPhone == << >>
PhoneIntl10 == <<"+", "1", "2", "3", "4", "5", "6", "7", "8", "9", "0">>
PhoneLocal == <<"1", "2", "3", "-", "4", "5", "6", "-", "7", "8", "9", "0">>
PhoneIntl7 == <<"+", "2", "2", "3", "4", "5", "6", "7">>
PhoneBare10 == <<"2", "2", "3", "4", "5", "6", "7", "8", "9", "0">>
PhoneWord == <<"a", "b", "c">>

SamplePhones == {NoPhone, PhoneIntl10, PhoneLocal, PhoneIntl7, PhoneBare10, PhoneWord}
SampleNames == {"", "Alice", "Bob"}
WellFormedEmails == {"alice@example.com", "bob@example.com"}
SampleEmails == WellFormedEmails \cup {"not-an-email"}

CustomerInputs == [name : SampleNames, email : SampleEmails, phone : SamplePhones]

SeedAlice == [name |-> "Alice", email |-> "alice@example.com", phone |-> PhoneIntl10]
SeedBob == [name |-> "Bob", email |-> "bob@example.com", phone |-> PhoneLocal]

\* The items a batch is drawn from: the seed's Alice, a second customer with
\* Alice's email, a blank name with a malformed email, and a customer whose
\* phone is no phone number.
BulkItems ==
    { SeedAlice,
      [name |-> "Bob", email |-> "alice@example.com", phone |-> NoPhone],
      [name |-> "", email |-> "not-an-email", phone |-> NoPhone],
      [name |-> "Bob", email |-> "bob@example.com", phone |-> PhoneWord] }

RECURSIVE SeqsUpTo(_, _)
SeqsUpTo(S, n) ==
    IF n = 0 THEN { << >> }
    ELSE LET shorter == SeqsUpTo(S, n - 1)
         IN  shorter \cup { Append(s, x) : s \in shorter, x \in S }

BulkInputs == SeqsUpTo(BulkItems, MaxBatch)

Range(s) == { s[i] : i \in 1..Len(s) }

RECURSIVE SetMax(_)
SetMax(S) ==
    IF S = {} THEN 0
    ELSE LET x == CHOOSE y \in S : TRUE
             m == SetMax(S \ {x})
         IN  IF x > m THEN x ELSE m

(***************************************************************************)
(* The phone pattern of CreateCustomer.mutate,                             *)
(*     ^\+?1?\d{9,15}$|\d{3}-\d{3}-\d{4}$     used with re.match           *)
(* re.match anchors both alternatives at the start; `$` matches at the end *)
(* of the string or just before a newline that ends it.                    *)
(***************************************************************************)
AllDigits(s) == \A i \in 1..Len(s) : s[i] \in Digits

DropFinalNewline(s) ==
    IF Len(s) > 0 /\ s[Len(s)] = "\n" THEN SubSeq(s, 1, Len(s) - 1) ELSE s

\* \+?1?\d{9,15}: a leading "1" is taken by `1?` or, on backtracking, by \d.
MatchIntl(s) ==
    LET r == IF Len(s) > 0 /\ s[1] = "+" THEN Tail(s) ELSE s
    IN  /\ AllDigits(r)
        /\ \/ Len(r) \in PhoneMinDigits..PhoneMaxDigits
           \/ /\ Len(r) > 0
              /\ r[1] = "1"
              /\ (Len(r) - 1) \in PhoneMinDigits..PhoneMaxDigits

\* \d{3}-\d{3}-\d{4}
MatchLocal(s) ==
    /\ Len(s) = 12
    /\ \A i \in {1, 2, 3, 5, 6, 7, 9, 10, 11, 12} : s[i] \in Digits
    /\ s[4] = "-"
    /\ s[8] = "-"

PhonePatternMatch(s) ==
    \E t \in {s, DropFinalNewline(s)} : MatchIntl(t) \/ MatchLocal(t)

(***************************************************************************)
(* Customer table: models.Customer, Model.full_clean and Model.save.       *)
(***************************************************************************)
EmailTaken(rows, email) == \E i \in 1..Len(rows) : rows[i].email = email

\* full_clean with validate_unique left out.
CustomerCleanErrors_NoUnique(d, rows) ==
    (IF d.name = "" THEN {<<"name", "blank">>} ELSE {})
    \cup (IF d.email \notin WellFormedEmails THEN {<<"email", "invalid">>} ELSE {})

\* full_clean: clean_fields, then validate_unique for the fields that passed.
\* The result is the set of <<field, code>> errors of the ValidationError.
CustomerCleanErrors(d, rows) ==
    LET nameErr  == IF d.name = "" THEN {<<"name", "blank">>}
                    ELSE IF Len(d.name) > NameMaxLen THEN {<<"name", "max_length">>}
                    ELSE {}
        emailErr == IF d.email = "" THEN {<<"email", "blank">>}
                    ELSE IF d.email \notin WellFormedEmails THEN {<<"email", "invalid">>}
                    ELSE IF EmailTaken(rows, d.email) THEN {<<"email", "unique">>}
                    ELSE {}
        phoneErr == IF Len(d.phone) > PhoneMaxLen THEN {<<"phone", "max_length">>}
                    ELSE {}
    IN  nameErr \cup emailErr \cup phoneErr

\* The next value of the table's AUTOINCREMENT key.
NextId(rows) == SetMax({ rows[i].id : i \in 1..Len(rows) }) + 1

NewCustomer(rows, d) ==
    [id |-> NextId(rows), name |-> d.name, email |-> d.email, phone |-> d.phone]

\* A table created without the unique index.
UniqueEmailViolated_NoIndex(rows, email) == FALSE

\* The unique index on email (unique=True): the INSERT fails with
\* IntegrityError when a row with the email exists, whatever the handler
\* checked before.
UniqueEmailViolated(rows, email) == EmailTaken(rows, email)

\* Model.save of a new Customer, on the rows the statement sees.
InsertCustomer(rows, d) ==
    IF UniqueEmailViolated(rows, d.email)
    THEN [ok |-> FALSE, rows |-> rows]
    ELSE [ok |-> TRUE, rows |-> Append(rows, NewCustomer(rows, d))]

(***************************************************************************)
(* CreateCustomer.mutate                                                   *)
(***************************************************************************)
PhoneFormatMsg == "Phone number must be in the format +1234567890 or 123-456-7890"

\* Lines 129-136: the pattern check and full_clean, on the rows they see.
CreateCustomerCheck(d, rows) ==
    IF d.phone # NoPhone /\ ~PhonePatternMatch(d.phone)
    THEN \* ValidationError(str): "phone" is not in str(e) (the message starts
         \* with "Phone"), and e.message_dict of an error that has no
         \* error_dict raises AttributeError inside the handler.
         [ok |-> FALSE, exc |-> "AttributeError", msg |-> "message_dict", fields |-> {}]
    ELSE LET errs == CustomerCleanErrors(d, rows)
         IN  IF errs = {}
             THEN [ok |-> TRUE, exc |-> "none", msg |-> "", fields |-> {}]
             ELSE IF \E e \in errs : e[1] = "phone"
             THEN [ok |-> FALSE, exc |-> "Exception", msg |-> PhoneFormatMsg, fields |-> {}]
             ELSE [ok |-> FALSE, exc |-> "Exception", msg |-> "Validation error",
                   fields |-> errs]

\* Lines 137-142: save, and the IntegrityError handler.
CreateCustomerSave(d, rows) ==
    LET ins == InsertCustomer(rows, d)
    IN  IF ins.ok
        THEN [rows |-> ins.rows,
              out |-> [ok |-> TRUE, exc |-> "none", msg |-> "Customer created successfully",
                       fields |-> {}],
              customer |-> <<ins.rows[Len(ins.rows)]>>]
        ELSE [rows |-> rows,
              out |-> [ok |-> FALSE, exc |-> "Exception", msg |-> "Email already exists.",
                       fields |-> {}],
              customer |-> << >>]

CreateCustomerRun(d, rows) ==
    LET chk == CreateCustomerCheck(d, rows)
    IN  IF chk.ok THEN CreateCustomerSave(d, rows)
        ELSE [rows |-> rows, out |-> chk, customer |-> << >>]

Idle == res.op = "none"

CreateCustomerOf(inputs) ==
    /\ Idle
    /\ \E d \in inputs :
        LET r == CreateCustomerRun(d, customers)
        IN  /\ customers' = r.rows
            /\ res' = [op |-> "CreateCustomer", input |-> d, out |-> r.out,
                       customer |-> r.customer, pre |-> customers]
    /\ UNCHANGED <<products, orders, reqs, bulk, ordReq>>

CreateCustomer == CreateCustomerOf(CustomerInputs)

(***************************************************************************)
(* BulkCreateCustomers.mutate: one transaction.atomic() block around the   *)
(* loop and no savepoint per item.  Model.save marks the transaction for   *)
(* rollback when its INSERT fails; from then on every query in the block   *)
(* raises TransactionManagementError and the block rolls back on exit.     *)
(* The transaction state is t = [pending, broken, customers, errors]:      *)
(* the rows it has inserted and not committed, the rollback mark, and the  *)
(* handler's two lists.                                                    *)
(***************************************************************************)
BulkError(d, detail) ==
    [prefix |-> "Error creating customer", name |-> d.name, detail |-> detail]

BulkStart == [pending |-> << >>, broken |-> FALSE, customers |-> << >>, errors |-> << >>]

\* Line 175, full_clean of one item; proceed says whether save is reached.
\* validate_unique queries the table unless the email failed clean_fields.
BulkItemClean(t, d, committed) ==
    IF t.broken /\ d.email \in WellFormedEmails
    THEN [proceed |-> FALSE,
          t |-> [t EXCEPT !.errors =
                     Append(@, BulkError(d, {<<"db", "TransactionManagementError">>}))]]
    ELSE LET errs == CustomerCleanErrors(d, committed \o t.pending)
         IN  IF errs # {}
             THEN [proceed |-> FALSE, t |-> [t EXCEPT !.errors = Append(@, BulkError(d, errs))]]
             ELSE [proceed |-> TRUE, t |-> t]

\* Lines 176-181, save of one item and the except branch.
BulkItemSave(t, d, committed) ==
    LET ins == InsertCustomer(committed \o t.pending, d)
    IN  IF ins.ok
        THEN LET c == ins.rows[Len(ins.rows)]
             IN  [t EXCEPT !.pending = Append(@, c), !.customers = Append(@, c)]
        ELSE [t EXCEPT !.broken = TRUE,
                       !.errors = Append(@, BulkError(d, {<<"db", "IntegrityError">>}))]

BulkItem(t, d, committed) ==
    LET c == BulkItemClean(t, d, committed)
    IN  IF c.proceed THEN BulkItemSave(c.t, d, committed) ELSE c.t

RECURSIVE BulkLoop(_, _, _, _)
BulkLoop(input, i, t, committed) ==
    IF i > Len(input) THEN t
    ELSE BulkLoop(input, i + 1, BulkItem(t, input[i], committed), committed)

\* Leaving the atomic block: commit, or roll back when marked.
BulkCommit(committed, t) == IF t.broken THEN committed ELSE committed \o t.pending

BulkCreateCustomers ==
    /\ Idle
    /\ \E input \in BulkInputs :
        LET t == BulkLoop(input, 1, BulkStart, customers)
        IN  /\ customers' = BulkCommit(customers, t)
            /\ res' = [op |-> "BulkCreateCustomers", input |-> input,
                       customers |-> t.customers, errors |-> t.errors, pre |-> customers]
    /\ UNCHANGED <<products, orders, reqs, bulk, ordReq>>

(***************************************************************************)
(* Product table and CreateProduct.mutate.  An input is                    *)
(* [name, price, hasStock, stock]; hasStock = FALSE is an absent or null   *)
(* stock.                                                                  *)
(***************************************************************************)
RECURSIVE NumDigits(_)
NumDigits(n) == IF n < 10 THEN 1 ELSE 1 + NumDigits(n \div 10)

Abs(x) == IF x < 0 THEN -x ELSE x

\* full_clean of a Product: CharField, DecimalField(max_digits=12,
\* decimal_places=2) on a value in cents, PositiveIntegerField.
ProductCleanErrors(p) ==
    (IF p.name = "" THEN {<<"name", "blank">>}
     ELSE IF Len(p.name) > NameMaxLen THEN {<<"name", "max_length">>} ELSE {})
    \cup (IF NumDigits(Abs(p.price)) > PriceMaxDigits THEN {<<"price", "max_digits">>} ELSE {})
    \cup (IF p.stock < 0 THEN {<<"stock", "min_value">>}
          ELSE IF p.stock > StockMax THEN {<<"stock", "max_value">>} ELSE {})

\* The price check with < in place of <=.
PriceRejected_ZeroAllowed(price) == price < 0

\* Line 198
PriceRejected(price) == price <= 0

\* Lines 201-202
StockRejected(d) == (IF d.hasStock THEN d.stock ELSE 0) < 0

\* Line 206: stock = input.stock or 0
StockStored(d) == IF d.hasStock /\ d.stock # 0 THEN d.stock ELSE 0

CreateProductRun(d, rows) ==
    IF PriceRejected(d.price)
    THEN [rows |-> rows, ok |-> FALSE, msg |-> "Price must be positive", product |-> << >>]
    ELSE IF StockRejected(d)
    THEN [rows |-> rows, ok |-> FALSE, msg |-> "Stock cannot be negative", product |-> << >>]
    ELSE LET p == [id |-> NextId(rows), name |-> d.name, price |-> d.price,
                   stock |-> StockStored(d)]
         IN  IF ProductCleanErrors(p) # {}
             THEN [rows |-> rows, ok |-> FALSE, msg |-> "full_clean", product |-> << >>]
             ELSE [rows |-> Append(rows, p), ok |-> TRUE, msg |-> "", product |-> <<p>>]

\* A product without stock at 10.00 or a refused price, and a product with a
\* stock at 5.50.
ProductInputs ==
    [name : {"", "Widget"}, price : {-100, 0, 1000}, hasStock : {FALSE}, stock : {0}]
    \cup [name : {"Gadget"}, price : {0, 550}, hasStock : {TRUE}, stock : {-1, 0, 5}]

\* Every failure leaves as Exception("Validation error: ...").
CreateProductOf(inputs) ==
    /\ Idle
    /\ Len(products) < MaxProducts
    /\ \E d \in inputs :
        LET r == CreateProductRun(d, products)
        IN  /\ products' = r.rows
            /\ res' = [op |-> "CreateProduct", input |-> d, ok |-> r.ok, msg |-> r.msg,
                       product |-> r.product, pre |-> products]
    /\ UNCHANGED <<customers, orders, reqs, bulk, ordReq>>

CreateProduct == CreateProductOf(ProductInputs)

(***************************************************************************)
(* Order table and CreateOrder.mutate.  An order row carries its           *)
(* many-to-many rows as the set `products` of product ids; `by` records    *)
(* which code inserted it.  order_date (timezone.now) is a logical clock.  *)
(***************************************************************************)
RowsWithId(rows, ids) == { i \in 1..Len(rows) : rows[i].id \in ids }

\* Product.objects.filter(id__in=ids): each matching row once.
FilterIdIn(rows, ids) == { rows[i] : i \in RowsWithId(rows, Range(ids)) }

RECURSIVE SumPrices(_)
SumPrices(S) ==
    IF S = {} THEN 0
    ELSE LET p == CHOOSE q \in S : TRUE
         IN  p.price + SumPrices(S \ {p})

\* Line 236
ProductCountMismatch(found, ids) == Cardinality(found) # Len(ids)

\* The total taken from one product instead of the sum.
OrderTotal_FirstOnly(found) == (CHOOSE p \in found : TRUE).price

\* Line 240
OrderTotal(found) == SumPrices(found)

\* Lines 228-240: every check before the first write.
OrderValidate(inp, custRows, prodRows) ==
    IF RowsWithId(custRows, {inp.customer_id}) = {}
    THEN [ok |-> FALSE, msg |-> "Customer not found", found |-> {}, total |-> 0]
    ELSE IF Len(inp.product_ids) = 0
    THEN [ok |-> FALSE, msg |-> "At least one product must be selected", found |-> {},
          total |-> 0]
    ELSE LET found == FilterIdIn(prodRows, inp.product_ids)
         IN  IF ProductCountMismatch(found, inp.product_ids)
             THEN [ok |-> FALSE, msg |-> "Some product IDs are invalid", found |-> {},
                   total |-> 0]
             ELSE [ok |-> TRUE, msg |-> "", found |-> found, total |-> OrderTotal(found)]

\* Line 243: Order.objects.create, committed on its own (autocommit).
OrderInsert(rows, customer_id, total, by) ==
    Append(rows, [id |-> NextId(rows), customer |-> customer_id, products |-> {},
                  total_amount |-> total, order_date |-> NextId(rows), by |-> by])

\* Line 244: order.products.set(products)
OrderSetProducts(rows, id, found) ==
    [i \in 1..Len(rows) |->
        IF rows[i].id = id THEN [rows[i] EXCEPT !.products = { p.id : p \in found }]
        ELSE rows[i]]

CreateOrderRun(inp, custRows, prodRows, ordRows) ==
    LET v == OrderValidate(inp, custRows, prodRows)
    IN  IF ~v.ok THEN [rows |-> ordRows, ok |-> FALSE, msg |-> v.msg, order |-> << >>]
        ELSE LET ins == OrderInsert(ordRows, inp.customer_id, v.total, "CreateOrder")
                 id  == ins[Len(ins)].id
                 fin == OrderSetProducts(ins, id, v.found)
             IN  [rows |-> fin, ok |-> TRUE, msg |-> "", order |-> <<fin[Len(fin)]>>]

SampleCustomerIds == {1, 2}
SampleProductIds == {1, 2, 3}

OrderInputs ==
    [customer_id : SampleCustomerIds, product_ids : SeqsUpTo(SampleProductIds, MaxIdList)]

CreateOrder ==
    /\ Idle
    /\ Len(orders) < MaxOrders
    /\ \E inp \in OrderInputs :
        LET r == CreateOrderRun(inp, customers, products, orders)
        IN  /\ orders' = r.rows
            /\ res' = [op |-> "CreateOrder", input |-> inp, ok |-> r.ok, msg |-> r.msg,
                       order |-> r.order, pre |-> orders, prods |-> products]
    /\ UNCHANGED <<customers, products, reqs, bulk, ordReq>>

(***************************************************************************)
(* seed.py: run().  Nothing wraps the statements in a transaction, so an   *)
(* exception leaves what the earlier statements wrote.                     *)
(***************************************************************************)
LaptopPrice == 99999
LaptopStock == 10
MousePrice == 1999
MouseStock == 200

\* Customer.objects.get_or_create(name=, email=, phone=): the lookup is on all
\* three fields; a failed INSERT is retried as a lookup and then re-raised.
GetOrCreateCustomer(rows, d) ==
    LET hits == { i \in 1..Len(rows) :
                    /\ rows[i].name = d.name
                    /\ rows[i].email = d.email
                    /\ rows[i].phone = d.phone }
    IN  IF hits # {}
        THEN [ok |-> TRUE, rows |-> rows, obj |-> <<rows[CHOOSE i \in hits : TRUE]>>]
        ELSE LET ins == InsertCustomer(rows, d)
             IN  IF ins.ok
                 THEN [ok |-> TRUE, rows |-> ins.rows, obj |-> <<ins.rows[Len(ins.rows)]>>]
                 ELSE [ok |-> FALSE, rows |-> rows, obj |-> << >>]

\* Product.objects.get_or_create(name=, defaults=): the lookup is on the name.
GetOrCreateProduct(rows, name, price, stock) ==
    LET hits == { i \in 1..Len(rows) : rows[i].name = name }
    IN  IF Cardinality(hits) > 1
        THEN [ok |-> FALSE, rows |-> rows, obj |-> << >>]
        ELSE IF hits # {}
        THEN [ok |-> TRUE, rows |-> rows, obj |-> <<rows[CHOOSE i \in hits : TRUE]>>]
        ELSE LET p == [id |-> NextId(rows), name |-> name, price |-> price, stock |-> stock]
             IN  [ok |-> TRUE, rows |-> Append(rows, p), obj |-> <<p>>]

\* Lines 34-35: order.total_amount = ...; order.save()
OrderSetTotal(rows, id, total) ==
    [i \in 1..Len(rows) |->
        IF rows[i].id = id THEN [rows[i] EXCEPT !.total_amount = total] ELSE rows[i]]

SeedRun(c, p, o) ==
    LET a == GetOrCreateCustomer(c, SeedAlice)
    IN  IF ~a.ok
        THEN [customers |-> c, products |-> p, orders |-> o, exc |-> "IntegrityError"]
        ELSE
    LET b == GetOrCreateCustomer(a.rows, SeedBob)
    IN  IF ~b.ok
        THEN [customers |-> a.rows, products |-> p, orders |-> o, exc |-> "IntegrityError"]
        ELSE
    LET l == GetOrCreateProduct(p, "Laptop", LaptopPrice, LaptopStock)
    IN  IF ~l.ok
        THEN [customers |-> b.rows, products |-> p, orders |-> o,
              exc |-> "MultipleObjectsReturned"]
        ELSE
    LET m == GetOrCreateProduct(l.rows, "Mouse", MousePrice, MouseStock)
    IN  IF ~m.ok
        THEN [customers |-> b.rows, products |-> l.rows, orders |-> o,
              exc |-> "MultipleObjectsReturned"]
        ELSE
    LET ins == OrderInsert(o, a.obj[1].id, 0, "seed")
        id  == ins[Len(ins)].id
        add == OrderSetProducts(ins, id, {l.obj[1], m.obj[1]})
        fin == OrderSetTotal(add, id, l.obj[1].price + m.obj[1].price)
    IN  [customers |-> b.rows, products |-> m.rows, orders |-> fin, exc |-> "none"]

Seed ==
    /\ Idle
    /\ Len(orders) < MaxOrders
    /\ LET r == SeedRun(customers, products, orders)
       IN  /\ customers' = r.customers
           /\ products' = r.products
           /\ orders' = r.orders
           /\ res' = [op |-> "seed", exc |-> r.exc, pre |-> customers]
    /\ UNCHANGED <<reqs, bulk, ordReq>>

(***************************************************************************)
(* Query.resolve_all_customers / _products / _orders, without filters.     *)
(* An order_by string is [desc, field]: "-name" is [TRUE, "name"], an      *)
(* absent or empty order_by is [FALSE, ""].  A queryset that is not        *)
(* ordered comes back in insertion order; rows with equal keys come back   *)
(* in any order.                                                           *)
(***************************************************************************)
OrderByStrings(fields) == [desc : BOOLEAN, field : fields]

NoOrderBy == [desc |-> FALSE, field |-> ""]

\* Lines 301-308, 325-334, 351-356: valid_order_fields
ValidCustomerOrder == OrderByStrings({"name", "email", "created_at"})
ValidProductOrder == OrderByStrings({"name", "price", "stock", "created_at"})
ValidOrderOrder == OrderByStrings({"total_amount", "order_date"})

\* The columns of crm/models.py.
CustomerColumns == {"id", "name", "email", "phone"}
ProductColumns == {"id", "name", "price", "stock"}
OrderColumns == {"id", "customer", "total_amount", "order_date"}

\* Binary collation of the sample strings.
StrRank(s) ==
    CASE s = "" -> 0
      [] s = "Alice" -> 1
      [] s = "Bob" -> 2
      [] s = "Gadget" -> 3
      [] s = "Laptop" -> 4
      [] s = "Mouse" -> 5
      [] s = "Widget" -> 6
      [] s = "alice@example.com" -> 7
      [] s = "bob@example.com" -> 8
      [] s = "not-an-email" -> 9

SortKey(row, ob) ==
    LET k == IF ob.field \in {"name", "email"} THEN StrRank(row[ob.field]) ELSE row[ob.field]
    IN  IF ob.desc THEN -k ELSE k

\* Every arrangement of the rows of S by ascending key.
RECURSIVE Sortings(_, _)
Sortings(S, ob) ==
    IF S = {} THEN { << >> }
    ELSE LET least == { r \in S : \A q \in S : SortKey(r, ob) <= SortKey(q, ob) }
         IN  UNION { { <<r>> \o rest : rest \in Sortings(S \ {r}, ob) } : r \in least }

\* queryset.order_by(order_by): FieldError for a name that is no column.
QuerySetOrderBy(rows, ob, columns) ==
    IF ob.field \notin columns
    THEN { [ok |-> FALSE, exc |-> "FieldError", rows |-> << >>] }
    ELSE { [ok |-> TRUE, exc |-> "none", rows |-> s] : s \in Sortings(Range(rows), ob) }

\* `if order_by:` and `if order_by in valid_order_fields:`
ResolveAll(rows, ob, valid, columns) ==
    IF ob # NoOrderBy /\ ob \in valid
    THEN QuerySetOrderBy(rows, ob, columns)
    ELSE { [ok |-> TRUE, exc |-> "none", rows |-> rows] }

CustomerOrderBys == OrderByStrings({"", "name", "email", "created_at", "phone", "bogus"})
ProductOrderBys == OrderByStrings({"", "name", "price", "stock", "created_at", "bogus"})
OrderOrderBys == OrderByStrings({"", "total_amount", "order_date", "customer", "bogus"})

AllCustomers ==
    /\ Idle
    /\ \E ob \in CustomerOrderBys :
        \E r \in ResolveAll(customers, ob, ValidCustomerOrder, CustomerColumns) :
            res' = [op |-> "allCustomers", order_by |-> ob, out |-> r,
                    valid |-> ob \in ValidCustomerOrder]
    /\ UNCHANGED <<customers, products, orders, reqs, bulk, ordReq>>

AllProducts ==
    /\ Idle
    /\ \E ob \in ProductOrderBys :
        \E r \in ResolveAll(products, ob, ValidProductOrder, ProductColumns) :
            res' = [op |-> "allProducts", order_by |-> ob, out |-> r,
                    valid |-> ob \in ValidProductOrder]
    /\ UNCHANGED <<customers, products, orders, reqs, bulk, ordReq>>

AllOrders ==
    /\ Idle
    /\ \E ob \in OrderOrderBys :
        \E r \in ResolveAll(orders, ob, ValidOrderOrder, OrderColumns) :
            res' = [op |-> "allOrders", order_by |-> ob, out |-> r,
                    valid |-> ob \in ValidOrderOrder]
    /\ UNCHANGED <<customers, products, orders, reqs, bulk, ordReq>>

\* The response reaches the caller.
Deliver ==
    /\ ~Idle
    /\ res' = [op |-> "none"]
    /\ UNCHANGED <<customers, products, orders, reqs, bulk, ordReq>>

Init ==
    /\ customers = << >>
    /\ products = << >>
    /\ orders = << >>
    /\ res = [op |-> "none"]
    /\ reqs = [r \in 1..NReq |-> [pc |-> "idle"]]
    /\ bulk = [pc |-> "idle"]
    /\ ordReq = [pc |-> "idle"]

Next == CreateCustomer \/ BulkCreateCustomers \/ Seed \/ AllCustomers \/ Deliver

Spec == Init /\ [][Next]_vars

NextShop ==
    \/ CreateCustomerOf({SeedAlice})
    \/ CreateProduct
    \/ CreateOrder
    \/ Seed
    \/ AllProducts
    \/ AllOrders
    \/ Deliver

SpecShop == Init /\ [][NextShop]_vars
(***************************************************************************)
(* The handlers under concurrent requests.  Each worker runs a handler     *)
(* statement by statement against the shared database: in autocommit a     *)
(* statement is committed as it ends, inside transaction.atomic() the rows *)
(* stay pending until the block is left.  The unique index makes an INSERT *)
(* wait while another transaction holds a pending row with the same key.   *)
(* reqs[r] is a CreateCustomer request, bulk the BulkCreateCustomers       *)
(* request, ordReq the CreateOrder request.                                *)
(***************************************************************************)
RaceCustomerInputs ==
    { SeedAlice, [name |-> "Bob", email |-> "alice@example.com", phone |-> NoPhone] }

RaceBulkItems ==
    { SeedAlice, SeedBob, [name |-> "", email |-> "bob@example.com", phone |-> NoPhone] }

RaceBulkInputs == SeqsUpTo(RaceBulkItems, MaxRaceBatch)

RaceProductInputs == { [name |-> "Widget", price |-> 1000, hasStock |-> FALSE, stock |-> 0] }

RaceOrderInputs ==
    { [customer_id |-> 1, product_ids |-> <<1>>],
      [customer_id |-> 1, product_ids |-> <<1, 2>>],
      [customer_id |-> 2, product_ids |-> <<1>>] }

Pending == IF bulk.pc \in {"clean", "save"} THEN bulk.t.pending ELSE << >>

\* CreateCustomer lines 129-136: the pattern check and full_clean.
RaceCustomerClean(r) ==
    /\ reqs[r].pc = "idle"
    /\ \E d \in RaceCustomerInputs :
        LET chk == CreateCustomerCheck(d, customers)
        IN  reqs' = [reqs EXCEPT ![r] =
                        IF chk.ok THEN [pc |-> "cleaned", input |-> d]
                        ELSE [pc |-> "done", input |-> d, out |-> chk, customer |-> << >>]]
    /\ UNCHANGED <<customers, products, orders, res, bulk, ordReq>>

\* CreateCustomer lines 137-142: save.
RaceCustomerSave(r) ==
    /\ reqs[r].pc = "cleaned"
    /\ ~EmailTaken(Pending, reqs[r].input.email)
    /\ LET s == CreateCustomerSave(reqs[r].input, customers \o Pending)
       IN  /\ customers' = customers \o s.customer
           /\ reqs' = [reqs EXCEPT ![r] = [pc |-> "done", input |-> reqs[r].input,
                                           out |-> s.out, customer |-> s.customer]]
    /\ UNCHANGED <<products, orders, res, bulk, ordReq>>

\* BulkCreateCustomers line 167: the atomic block is entered.
RaceBulkBegin ==
    /\ bulk.pc = "idle"
    /\ \E input \in RaceBulkInputs :
        bulk' = [pc |-> "clean", input |-> input, i |-> 1, t |-> BulkStart]
    /\ UNCHANGED <<customers, products, orders, res, reqs, ordReq>>

\* Line 175 for item i.
RaceBulkClean ==
    /\ bulk.pc = "clean"
    /\ bulk.i <= Len(bulk.input)
    /\ LET c == BulkItemClean(bulk.t, bulk.input[bulk.i], customers)
       IN  bulk' = IF c.proceed THEN [bulk EXCEPT !.pc = "save"]
                   ELSE [bulk EXCEPT !.t = c.t, !.i = @ + 1]
    /\ UNCHANGED <<customers, products, orders, res, reqs, ordReq>>

\* Lines 176-181 for item i.
RaceBulkSave ==
    /\ bulk.pc = "save"
    /\ bulk' = [bulk EXCEPT !.t = BulkItemSave(bulk.t, bulk.input[bulk.i], customers),
                            !.i = @ + 1, !.pc = "clean"]
    /\ UNCHANGED <<customers, products, orders, res, reqs, ordReq>>

\* The atomic block is left and line 183 returns the two lists.
RaceBulkExit ==
    /\ bulk.pc = "clean"
    /\ bulk.i > Len(bulk.input)
    /\ customers' = BulkCommit(customers, bulk.t)
    /\ bulk' = [bulk EXCEPT !.pc = "done"]
    /\ UNCHANGED <<products, orders, res, reqs, ordReq>>

\* CreateOrder lines 228-243: the checks and Order.objects.create.
RaceOrderInsert ==
    /\ ordReq.pc = "idle"
    /\ \E inp \in RaceOrderInputs :
        LET v == OrderValidate(inp, customers, products)
        IN  IF ~v.ok
            THEN /\ ordReq' = [pc |-> "done", input |-> inp, ok |-> FALSE, msg |-> v.msg]
                 /\ orders' = orders
            ELSE /\ orders' = OrderInsert(orders, inp.customer_id, v.total, "CreateOrder")
                 /\ ordReq' = [pc |-> "inserted", input |-> inp, id |-> NextId(orders),
                               found |-> v.found]
    /\ UNCHANGED <<customers, products, res, reqs, bulk>>

\* Line 244: order.products.set(products)
RaceOrderSet ==
    /\ ordReq.pc = "inserted"
    /\ orders' = OrderSetProducts(orders, ordReq.id, ordReq.found)
    /\ ordReq' = [pc |-> "done", input |-> ordReq.input, ok |-> TRUE, msg |-> ""]
    /\ UNCHANGED <<customers, products, res, reqs, bulk>>

\* Line 244 raises instead (the connection drops, the worker is stopped):
\* lines 249-250 re-raise, and nothing undoes the row of line 243.
RaceOrderFail ==
    /\ ordReq.pc = "inserted"
    /\ ordReq' = [pc |-> "done", input |-> ordReq.input, ok |-> FALSE, msg |-> "database"]
    /\ UNCHANGED <<customers, products, orders, res, reqs, bulk>>

NextRace ==
    \/ \E r \in 1..NReq : RaceCustomerClean(r)
    \/ \E r \in 1..NReq : RaceCustomerSave(r)
    \/ RaceBulkBegin
    \/ RaceBulkClean
    \/ RaceBulkSave
    \/ RaceBulkExit
    \/ CreateProductOf(RaceProductInputs)
    \/ Deliver
    \/ RaceOrderInsert
    \/ RaceOrderSet
    \/ RaceOrderFail

SpecRace == Init /\ [][NextRace]_vars
(***************************************************************************)
(* Properties.                                                             *)
(***************************************************************************)
\* The phone shapes of the data model: empty, "+" and 7 to 15 digits, or
\* NNN-NNN-NNNN.
ShapePlusDigits(p) ==
    /\ Len(p) > 0
    /\ p[1] = "+"
    /\ AllDigits(Tail(p))
    /\ (Len(p) - 1) \in 7..15

ShapeLocal(p) ==
    /\ Len(p) = 12
    /\ \A i \in 1..12 : IF i \in {4, 8} THEN p[i] = "-" ELSE p[i] \in Digits

DocumentedPhone(p) == p = NoPhone \/ ShapePlusDigits(p) \/ ShapeLocal(p)

\* An item a batch has to skip: a missing name or email, a malformed email, a
\* phone of no documented shape, or an email some row already has.
ItemMustFail(d, rows) ==
    \/ d.name = ""
    \/ d.email \notin WellFormedEmails
    \/ ~DocumentedPhone(d.phone)
    \/ EmailTaken(rows, d.email)

\* The indices of the items of input[i..] to skip, given the rows present.
RECURSIVE FailingRows(_, _, _)
FailingRows(input, i, rows) ==
    IF i > Len(input) THEN << >>
    ELSE IF ItemMustFail(input[i], rows)
    THEN <<i>> \o FailingRows(input, i + 1, rows)
    ELSE FailingRows(input, i + 1, Append(rows, NewCustomer(rows, input[i])))

SameData(c, d) == c.name = d.name /\ c.email = d.email /\ c.phone = d.phone

\* C1: BulkCreateCustomers is partial-success: every failing item (missing
\* name or email, bad phone, duplicate email against the store or an earlier
\* item) is skipped, every other item is created, the store gains exactly the
\* returned customers in input order, and errors holds one "Row {i}: ..."
\* entry per failed item.
C1_BulkPartialSuccess ==
    res.op = "BulkCreateCustomers" =>
        LET failed == FailingRows(res.input, 1, res.pre)
            kept   == SelectSeq([i \in 1..Len(res.input) |-> i],
                                LAMBDA i : i \notin Range(failed))
        IN  /\ customers = res.pre \o res.customers
            /\ Len(res.customers) = Len(kept)
            /\ \A k \in 1..Len(kept) : SameData(res.customers[k], res.input[kept[k]])
            /\ Len(res.errors) = Len(failed)
            /\ \A k \in 1..Len(failed) : res.errors[k].prefix = "Row"

\* C2: in every reachable state no two Customer rows share an email.
C2_UniqueEmails ==
    \A i, j \in 1..Len(customers) :
        i # j => customers[i].email # customers[j].email

\* The seed's INSERT of Alice was refused by the unique index while another
\* customer holds her email.
C2_Witness ==
    /\ res.op = "seed"
    /\ res.exc = "IntegrityError"
    /\ Len(customers) = 2

DuplicateAttempt ==
    /\ res.op = "CreateCustomer"
    /\ EmailTaken(res.pre, res.input.email)

PriceOfId(rows, id) == rows[CHOOSE i \in 1..Len(rows) : rows[i].id = id].price

RECURSIVE SumListed(_, _, _)
SumListed(rows, ids, i) ==
    IF i > Len(ids) THEN 0 ELSE PriceOfId(rows, ids[i]) + SumListed(rows, ids, i + 1)

\* C4: for every successful CreateOrder the stored order's total_amount is
\* the exact sum of the prices of the products listed in productIds, and the
\* order is associated with exactly those products.
C4_OrderTotal ==
    (res.op = "CreateOrder" /\ res.ok) =>
        LET o == res.order[1]
        IN  /\ orders = Append(res.pre, o)
            /\ o.customer = res.input.customer_id
            /\ o.products = Range(res.input.product_ids)
            /\ o.total_amount = SumListed(res.prods, res.input.product_ids, 1)

\* The order of the example: 10.00 + 5.50 = 15.50.
C4_Witness ==
    /\ res.op = "CreateOrder"
    /\ res.ok
    /\ Len(res.input.product_ids) = 2
    /\ { p.price : p \in FilterIdIn(products, res.input.product_ids) } = {1000, 550}
    /\ orders[Len(orders)].total_amount = 1550

\* C5: CreateOrder with an existing customer and a non-empty productIds with
\* an id that is no Product returns order = null with an
\* "Invalid product ID(s): ..." error and creates no Order; when every id is
\* a Product no invalid-product error is reported.
C5_InvalidProductIds ==
    ( /\ res.op = "CreateOrder"
      /\ RowsWithId(customers, {res.input.customer_id}) # {}
      /\ Len(res.input.product_ids) > 0 ) =>
        LET missing == { id \in Range(res.input.product_ids) :
                           RowsWithId(res.prods, {id}) = {} }
        IN  IF missing # {}
            THEN /\ ~res.ok
                 /\ res.order = << >>
                 /\ orders = res.pre
            ELSE res.msg # "Some product IDs are invalid"

\* C6: in no reachable state does the store hold an Order created by
\* CreateOrder that lacks its products.
C6_OrderNeverWithoutProducts ==
    \A i \in 1..Len(orders) :
        orders[i].by = "CreateOrder" => orders[i].products # {}

\* C7: every Product has price > 0 and stock >= 0 (0 when the input stock is
\* absent); a CreateProduct with price <= 0 or stock < 0 writes nothing.
C7_ProductRanges ==
    /\ \A i \in 1..Len(products) : products[i].price > 0 /\ products[i].stock >= 0
    /\ res.op = "CreateProduct" =>
          /\ (res.input.price <= 0 \/ (res.input.hasStock /\ res.input.stock < 0)) =>
                 (~res.ok /\ res.product = << >> /\ products = res.pre)
          /\ (res.ok /\ ~res.input.hasStock) => res.product[1].stock = 0
          /\ res.ok => products = Append(res.pre, res.product[1])

\* A zero price is refused while the table already holds a product.
C7_Witness ==
    /\ res.op = "CreateProduct"
    /\ res.input.price = 0
    /\ res.input.name = "Widget"
    /\ ~res.input.hasStock
    /\ Len(products) = 1
    /\ products[1].stock = 0

\* C8: customer creation accepts a phone exactly when it is empty, "+" and
\* 7 to 15 digits, or NNN-NNN-NNNN, and no Customer with another phone is
\* ever stored.
C8_PhoneShapes ==
    /\ \A i \in 1..Len(customers) : DocumentedPhone(customers[i].phone)
    /\ res.op = "CreateCustomer" =>
          /\ res.out.ok => DocumentedPhone(res.input.phone)
          /\ (DocumentedPhone(res.input.phone)
                /\ CustomerCleanErrors(res.input, res.pre) = {}) => res.out.ok

IsSorted(rows, ob) ==
    \A i, j \in 1..Len(rows) : i < j => SortKey(rows[i], ob) <= SortKey(rows[j], ob)

\* C9: an orderBy outside the whitelist is ignored and the query returns what
\* it returns without orderBy; a whitelisted value sorts by that field,
\* descending when prefixed with "-"; the query does not fail.
C9_OrderByWhitelist ==
    res.op = "allCustomers" =>
        /\ res.out.ok
        /\ Range(res.out.rows) = Range(customers)
        /\ Len(res.out.rows) = Len(customers)
        /\ IF res.valid THEN IsSorted(res.out.rows, res.order_by)
           ELSE res.out.rows = customers

\* C10: when customer creations with one email interleave, one inserts and
\* the other ends with an "already exists" error, the store never holds two
\* rows with the email, and a losing item of a batch does not keep the
\* batch's other valid items from being committed.
C10_RaceOneWinner ==
    /\ C2_UniqueEmails
    /\ \A r \in 1..NReq :
          (reqs[r].pc = "done" /\ ~reqs[r].out.ok /\ reqs[r].out.fields = {}
             /\ reqs[r].out.exc = "Exception") =>
              reqs[r].out.msg = "Email already exists."
    /\ bulk.pc = "done" =>
          \A k \in 1..Len(bulk.t.customers) : bulk.t.customers[k] \in Range(customers)
====
